---- MODULE Spec2Model ----
(***************************************************************************)
(* A model of watcher.py: the Line Reader Queue (_ScanQueue), the Console  *)
(* Sink (_DispQueue) and the Endpoint (Watcher).                           *)
(*                                                                         *)
(* Threads: one reader worker per _ScanQueue (readLineAndQPut), the sink   *)
(* worker (printLoop), and the caller's thread (attach calls, watchFor,    *)
(* stop).  Every access to state shared between threads is a step of its   *)
(* own; a thread's purely local computation is folded into the shared      *)
(* access that precedes it.                                                *)
(***************************************************************************)
EXTENDS Integers, Sequences, FiniteSets, TLC

\* ---------------------------------------------------------------- bounds
\* what the finite sources of a run yield, all sources together: each line of
\* text, each end of file and each read error counts as one
MaxEvents == 2
\* operations the caller's thread performs (attach calls and watchFor calls)
MaxCalls == 3
\* calls of getnextcolor, and of getnextstyle, in a run
MaxIndex == 10
\* operations the caller's thread performs on a subprocess (with send,
\* wait_subp_done and proc_running)
MaxProcCalls == 4
\* records an endless source may have waiting in a private FIFO
MaxQueue == 2

\* ------------------------------------------------------------ vocabulary
\* the keys of Watcher.queues: "stdout"/"stderr" for a subprocess, the
\* Watcher's own name for a socket or a serial port
WatcherName == "w0"
QNames == {"stdout", "stderr", WatcherName}

\* what fh.readline() returns for a line of text ("" is end of file)
RawLines == {"ok\n", "err\n", "\n"}

EOFMarker == "<<EOF>>"
ExcMarker == "<<Exception on stream>>"
None == "None"

\* str.rstrip() on the lines of RawLines
rstrip(raw) ==
    CASE raw = "ok\n" -> "ok"
      [] raw = "err\n" -> "err"
      [] raw = "\n" -> ""
      [] OTHER -> raw

\* the xformer argument of Watcher(): "none" is no xformer; "filter" is a
\* function that blanks the lines "err" and returns None for the EOF marker
XFormers == {"none", "filter"}
ApplyXformer(x, line) ==
    IF x = "none" THEN line
    ELSE CASE line = "err" -> ""
           [] line = EOFMarker -> None
           [] OTHER -> line

\* re.compile(pat).search(line) for the literal patterns the caller uses
Patterns == {"ok", "err"}
search(pat, line) == pat \in Patterns /\ line = pat

\* the timeout values a caller passes
Timeouts == {0, 1}

\* the statuses a child exits with
ExitCodes == {"0", "1"}

\* what send() is given: the keyword it comes by and the value
SendKinds == {"text", "raw", "json"}
Payloads == {"stop", " hi "}

\* str.strip() on the pieces send() is given
strip(piece) ==
    CASE piece = " hi " -> "hi"
      [] OTHER -> piece

\* a function attribute of ansi_color that has not been assigned yet
NoIndex == -1

VARIABLES
    \* environment
    elapsed,      \* time.time() - start, while a watchFor call runs
    endless,      \* the sources never end and never fail
    \* Watcher
    disper,       \* "sink" or "none" (Watcher(disper=None))
    xformer,
    started,
    queues,       \* the keys of self.queues
    istream,
    proc_handle,
    t_wfx,
    \* _ScanQueue, per key
    fh,           \* "none", "open", "closed"
    fifo,         \* self.q
    closed,       \* self._closed
    rpc,          \* where the reader worker is
    rarg,         \* the argument of the put() the worker is in
    rret,         \* where the worker goes when that put() returns
    rv,           \* the record v of the put() the worker is in
    \* _DispQueue
    sinkQ,        \* self.q
    running,      \* self.running
    ppc,          \* where the printLoop worker is
    last_name,
    printed,      \* what the worker has printed
    spc,          \* where the caller of stop() is
    \* the caller's thread
    cpc,          \* where the caller is
    cq, cpat, cfail, ctimeout,   \* the locals of the watchFor call
    result,       \* how the last call ended
    matched,      \* the record the last watchFor call matched
    ncalls,
    \* history of the run
    delivered,    \* per key: the records put into the private FIFO
    consumed,     \* per key: the records taken from the private FIFO
    callConsumed, \* the records taken by the current watchFor call
    lines,        \* per key: the lines readline() has returned
    ending,       \* per key: "open", or how the source ended: "eof", "exc"
    sunk,         \* the records that have arrived at the sink
    nput,         \* per key: the records put() has made
    onDone,       \* the last watchFor call began on a queue closed and empty
    \* the child process and its exit code
    child,        \* "none", "running", "exited"
    exitcode,     \* the status the child exited with
    returncode,   \* proc_handle.returncode
    retcode,      \* self.retcode
    sent,         \* what has been written to the input sink
    waited,       \* a wait_subp_done call has returned
    late,         \* retcode was set past the deadline of a running wait_subp_done
    \* colours
    colorize,     \* _DispQueue.colorize
    colorlist,    \* _DispQueue.colorlist: the names that have a colour, and it
    color_index,  \* getnextcolor.index, NoIndex while the attribute is not set
    style_index   \* getnextstyle.index, NoIndex while the attribute is not set

envVars == <<elapsed, endless>>
watcherVars == <<disper, xformer, started, queues, istream, proc_handle, t_wfx>>
scanVars == <<fh, fifo, closed, rpc, rarg, rret, rv>>
dispVars == <<sinkQ, running, ppc, last_name, printed, spc>>
callVars == <<cpc, cq, cpat, cfail, ctimeout, result, matched, ncalls>>
histVars == <<delivered, consumed, callConsumed, lines, ending, sunk, nput, onDone>>
procVars == <<child, exitcode, returncode, retcode, sent, waited, late>>
colorVars == <<colorize, colorlist, color_index, style_index>>
vars == <<envVars, watcherVars, scanVars, dispVars, callVars, histVars, procVars,
          colorVars>>

\* the history of an endless source is not kept
Log(s, e) == IF endless THEN s ELSE Append(s, e)

NoRecord == [name |-> "", line |-> "", id |-> 0]

\* ------------------------------------------------------------ ansi_color
\* CONFIG["colors"] and CONFIG["styles"]
colors ==
    <<"black", "red", "green", "yellow", "blue", "magenta", "cyan", "white",
      "nochange">>
styles ==
    <<"normal", "bold", "dim", "italic", "underline", "blink", "fastblink",
      "reverse", "hide", "strikethrough", "nochange">>

\* list[i] of Python, whose first index is 0
at(list, i) == list[i + 1]

\* getattr(f, "index", 0) + 1
nextindex(index) == (IF index = NoIndex THEN 0 ELSE index) + 1

\* what getnextcolor returns once it has set getnextcolor.index to index
nextcolor(index) == at(colors, 1 + (index % (Len(colors) - 2)))

\* getnextcolor, called from anywhere
getnextcolor ==
    /\ color_index < MaxIndex
    /\ color_index' = nextindex(color_index)
    /\ result' = nextcolor(color_index')
    /\ UNCHANGED <<envVars, watcherVars, scanVars, dispVars, cpc, cq, cpat, cfail,
                   ctimeout, matched, ncalls, histVars, procVars, colorize,
                   colorlist, style_index>>

\* getnextstyle, called from anywhere: it advances getnextstyle.index and
\* indexes the styles by getnextcolor.index, an attribute that does not exist
\* before the first call of getnextcolor
getnextstyle ==
    /\ style_index < MaxIndex
    /\ style_index' = nextindex(style_index)
    /\ result' = IF color_index = NoIndex
                 THEN "AttributeError"
                 ELSE at(styles, 0 + (color_index % (Len(styles) - 1)))
    /\ UNCHANGED <<envVars, watcherVars, scanVars, dispVars, cpc, cq, cpat, cfail,
                   ctimeout, matched, ncalls, histVars, procVars, colorize,
                   colorlist, color_index>>

\* ------------------------------------------------------------ _DispQueue
\* _DispQueue.put: the record joins the sink's queue
DispQueue_put(v) ==
    /\ sinkQ' = Append(sinkQ, v)
    /\ sunk' = Log(sunk, v)

\* Watcher._print / _DispQueue.print: a message of the program itself
print(text) ==
    IF disper = "sink"
    THEN DispQueue_put([name |-> "DispQueue", line |-> text, id |-> Len(sunk) + 1])
    ELSE UNCHANGED <<sinkQ, sunk>>

\* _DispQueue.stop, first statement: self.running = False
stop_flag ==
    /\ disper = "sink"
    /\ spc = "idle"
    /\ running' = FALSE
    /\ spc' = "put"
    /\ UNCHANGED <<envVars, watcherVars, scanVars, sinkQ, ppc, last_name,
                   printed, callVars, histVars>>
    /\ UNCHANGED <<procVars, colorVars>>

\* _DispQueue.stop, second statement: the "stopping" record is enqueued
stop_put ==
    /\ spc = "put"
    /\ DispQueue_put([name |-> "DispQueue", line |-> "stopping",
                      id |-> Len(sunk) + 1])
    /\ spc' = "join"
    /\ UNCHANGED <<envVars, watcherVars, scanVars, running, ppc, last_name,
                   printed, callVars, delivered, consumed, callConsumed,
                   lines, ending, nput, onDone>>
    /\ UNCHANGED <<procVars, colorVars>>

\* _DispQueue.stop, third statement: thread.join() returns once printLoop
\* has returned
stop_join ==
    /\ spc = "join"
    /\ ppc = "done"
    /\ spc' = "returned"
    /\ UNCHANGED <<envVars, watcherVars, scanVars, sinkQ, running, ppc,
                   last_name, printed, callVars, histVars>>
    /\ UNCHANGED <<procVars, colorVars>>

\* printLoop, the loop test, left operand: self.running is read
printLoop_running ==
    /\ disper = "sink"
    /\ ppc = "while"
    /\ ppc' = IF running THEN "get" ELSE "q.empty"
    /\ UNCHANGED <<envVars, watcherVars, scanVars, sinkQ, running, last_name,
                   printed, spc, callVars, histVars>>
    /\ UNCHANGED <<procVars, colorVars>>

\* printLoop, the loop test, right operand: self.q.empty() is read
printLoop_empty ==
    /\ ppc = "q.empty"
    /\ ppc' = IF sinkQ # <<>> THEN "get" ELSE "done"
    /\ UNCHANGED <<envVars, watcherVars, scanVars, sinkQ, running, last_name,
                   printed, spc, callVars, histVars>>
    /\ UNCHANGED <<procVars, colorVars>>

\* a body that takes a new colour for every record
printLoop_print_recolor ==
    /\ ppc = "get"
    /\ sinkQ # <<>>
    /\ LET v == Head(sinkQ)
       IN  /\ IF colorize
              THEN /\ color_index' = nextindex(color_index)
                   /\ colorlist' = [n \in DOMAIN colorlist \cup {v.name} |->
                                      IF n = v.name THEN nextcolor(color_index')
                                      ELSE colorlist[n]]
              ELSE UNCHANGED <<colorlist, color_index>>
           /\ printed' = Append(printed,
                            [name |-> v.name, line |-> v.line, id |-> v.id,
                             shown |-> IF v.name # last_name THEN v.name ELSE "",
                             color |-> IF colorize THEN colorlist'[v.name] ELSE "none"])
           /\ last_name' = v.name
    /\ sinkQ' = Tail(sinkQ)
    /\ ppc' = "while"
    /\ UNCHANGED <<envVars, watcherVars, scanVars, running, spc, callVars, histVars>>
    /\ UNCHANGED <<procVars, colorize, style_index>>

\* a body that blanks the name of every record but the first
printLoop_print_blank ==
    /\ ppc = "get"
    /\ sinkQ # <<>>
    /\ LET v == Head(sinkQ)
           new == colorize /\ v.name \notin DOMAIN colorlist
       IN  /\ IF new
              THEN /\ color_index' = nextindex(color_index)
                   /\ colorlist' = [n \in DOMAIN colorlist \cup {v.name} |->
                                      IF n = v.name THEN nextcolor(color_index')
                                      ELSE colorlist[n]]
              ELSE UNCHANGED <<colorlist, color_index>>
           /\ printed' = Append(printed,
                            [name |-> v.name, line |-> v.line, id |-> v.id,
                             shown |-> IF last_name = "" THEN v.name ELSE "",
                             color |-> IF colorize THEN colorlist'[v.name] ELSE "none"])
           /\ last_name' = v.name
    /\ sinkQ' = Tail(sinkQ)
    /\ ppc' = "while"
    /\ UNCHANGED <<envVars, watcherVars, scanVars, running, spc, callVars, histVars>>
    /\ UNCHANGED <<procVars, colorize, style_index>>

\* printLoop, the body with a record: q.get returns the oldest record.  With
\* colours a name seen for the first time is given the next colour.  The
\* record is printed with its name, or with no name when it repeats the last
\* one, in the colour of its name.
printLoop_print ==
    /\ ppc = "get"
    /\ sinkQ # <<>>
    /\ LET v == Head(sinkQ)
           new == colorize /\ v.name \notin DOMAIN colorlist
       IN  /\ IF new
              THEN /\ color_index' = nextindex(color_index)
                   /\ colorlist' = [n \in DOMAIN colorlist \cup {v.name} |->
                                      IF n = v.name THEN nextcolor(color_index')
                                      ELSE colorlist[n]]
              ELSE UNCHANGED <<colorlist, color_index>>
           /\ printed' = Append(printed,
                            [name |-> v.name, line |-> v.line, id |-> v.id,
                             shown |-> IF v.name # last_name THEN v.name ELSE "",
                             color |-> IF colorize THEN colorlist'[v.name] ELSE "none"])
           /\ last_name' = v.name
    /\ sinkQ' = Tail(sinkQ)
    /\ ppc' = "while"
    /\ UNCHANGED <<envVars, watcherVars, scanVars, running, spc, callVars, histVars>>
    /\ UNCHANGED <<procVars, colorize, style_index>>

\* printLoop, the body without a record: q.get(True, timeout=1) raises
\* queue.Empty, which is passed over
printLoop_timeout ==
    /\ ppc = "get"
    /\ sinkQ = <<>>
    /\ ppc' = "while"
    /\ UNCHANGED <<envVars, watcherVars, scanVars, sinkQ, running, last_name,
                   printed, spc, callVars, histVars>>
    /\ UNCHANGED <<procVars, colorVars>>

\* ------------------------------------------------------------ _ScanQueue
\* _ScanQueue.__init__ with infile given: the queue and its started worker
ScanQueue_init(keys) ==
    /\ fh' = [q \in QNames |-> IF q \in keys THEN "open" ELSE fh[q]]
    /\ fifo' = [q \in QNames |-> IF q \in keys THEN <<>> ELSE fifo[q]]
    /\ closed' = [q \in QNames |-> IF q \in keys THEN FALSE ELSE closed[q]]
    /\ rpc' = [q \in QNames |-> IF q \in keys THEN "read" ELSE rpc[q]]
    /\ UNCHANGED <<rarg, rret, rv>>

\* what readline() has yielded so far, all sources together
ended(q) == IF ending[q] = "open" THEN 0 ELSE 1
nevents ==
    Len(lines["stdout"]) + Len(lines["stderr"]) + Len(lines[WatcherName])
    + ended("stdout") + ended("stderr") + ended(WatcherName)

\* readLineAndQPut: readline() returns a line of text, which is put stripped
readLineAndQPut_line(q) ==
    /\ rpc[q] = "read" /\ ~closed[q]
    /\ endless \/ nevents < MaxEvents
    /\ endless => Len(fifo[q]) < MaxQueue
    /\ \E raw \in RawLines :
          /\ rarg' = [rarg EXCEPT ![q] = rstrip(raw)]
          /\ lines' = [lines EXCEPT ![q] = Log(@, raw)]
    /\ rpc' = [rpc EXCEPT ![q] = "put"]
    /\ rret' = [rret EXCEPT ![q] = "read"]
    /\ UNCHANGED <<envVars, watcherVars, fh, fifo, closed, rv, dispVars, callVars,
                   delivered, consumed, callConsumed, ending, sunk, nput, onDone>>
    /\ UNCHANGED <<procVars, colorVars>>

\* readLineAndQPut: readline() returns "": the file is closed and close()
\* called, which starts by putting the EOF marker
readLineAndQPut_eof(q) ==
    /\ rpc[q] = "read" /\ ~closed[q]
    /\ ~endless /\ nevents < MaxEvents
    /\ fh' = [fh EXCEPT ![q] = "closed"]
    /\ ending' = [ending EXCEPT ![q] = "eof"]
    /\ rarg' = [rarg EXCEPT ![q] = EOFMarker]
    /\ rpc' = [rpc EXCEPT ![q] = "put"]
    /\ rret' = [rret EXCEPT ![q] = "close"]
    /\ UNCHANGED <<envVars, watcherVars, fifo, closed, rv, dispVars, callVars,
                   delivered, consumed, callConsumed, lines, sunk, nput, onDone>>
    /\ UNCHANGED <<procVars, colorVars>>

\* readLineAndQPut: readline() raises: the exception marker is put
readLineAndQPut_exc(q) ==
    /\ rpc[q] = "read" /\ ~closed[q]
    /\ ~endless /\ nevents < MaxEvents
    /\ ending' = [ending EXCEPT ![q] = "exc"]
    /\ rarg' = [rarg EXCEPT ![q] = ExcMarker]
    /\ rpc' = [rpc EXCEPT ![q] = "put"]
    /\ rret' = [rret EXCEPT ![q] = "except"]
    /\ UNCHANGED <<envVars, watcherVars, fh, fifo, closed, rv, dispVars, callVars,
                   delivered, consumed, callConsumed, lines, sunk, nput, onDone>>
    /\ UNCHANGED <<procVars, colorVars>>

\* readLineAndQPut, after the exception marker is put: the file is closed and
\* close() called, which starts by putting the EOF marker
readLineAndQPut_except(q) ==
    /\ rpc[q] = "except"
    /\ fh' = [fh EXCEPT ![q] = "closed"]
    /\ rarg' = [rarg EXCEPT ![q] = EOFMarker]
    /\ rpc' = [rpc EXCEPT ![q] = "put"]
    /\ rret' = [rret EXCEPT ![q] = "close"]
    /\ UNCHANGED <<envVars, watcherVars, fifo, closed, rv, dispVars, callVars,
                   histVars>>
    /\ UNCHANGED <<procVars, colorVars>>

\* the test of put() on the line it was given
deliverable(line) == line # None /\ line # ""

\* a put that copies the record to the Console Sink before it tests the line
put_sink_first(q) ==
    /\ rpc[q] = "put"
    /\ LET line == ApplyXformer(xformer, rarg[q])
           v == [name |-> q, line |-> line,
                 id |-> IF endless THEN 0 ELSE nput[q] + 1]
       IN  /\ nput' = [nput EXCEPT ![q] = v.id]
           /\ IF disper = "sink" THEN DispQueue_put(v) ELSE UNCHANGED <<sinkQ, sunk>>
           /\ IF deliverable(line)
              THEN /\ rpc' = [rpc EXCEPT ![q] = "q.put"]
                   /\ rv' = [rv EXCEPT ![q] = v]
              ELSE /\ rpc' = [rpc EXCEPT ![q] = rret[q]]
                   /\ UNCHANGED rv
    /\ rarg' = [rarg EXCEPT ![q] = ""]
    /\ UNCHANGED <<envVars, watcherVars, fh, fifo, closed, rret,
                   running, ppc, last_name, printed, spc, callVars,
                   delivered, consumed, callConsumed, lines, ending, onDone>>
    /\ UNCHANGED <<procVars, colorVars>>

\* a put that enqueues the record in the private FIFO without copying it to
\* the Console Sink
put_unforwarded(q) ==
    /\ rpc[q] = "put"
    /\ LET line == ApplyXformer(xformer, rarg[q])
           v == [name |-> q, line |-> line,
                 id |-> IF endless THEN 0 ELSE nput[q] + 1]
       IN  /\ nput' = [nput EXCEPT ![q] = v.id]
           /\ IF deliverable(line)
              THEN /\ rpc' = [rpc EXCEPT ![q] = "q.put"]
                   /\ rv' = [rv EXCEPT ![q] = v]
              ELSE /\ rpc' = [rpc EXCEPT ![q] = rret[q]]
                   /\ UNCHANGED rv
    /\ rarg' = [rarg EXCEPT ![q] = ""]
    /\ UNCHANGED <<envVars, watcherVars, fh, fifo, closed, rret, dispVars,
                   callVars, delivered, consumed, callConsumed, lines, ending,
                   sunk, onDone>>
    /\ UNCHANGED <<procVars, colorVars>>

\* put, up to the sink: the assertion, the xformer, the record, the test of
\* the line and the copy for the Console Sink.  The id of a record stands for
\* the identity of the dict v.
put(q) ==
    /\ rpc[q] = "put"
    /\ LET line == ApplyXformer(xformer, rarg[q])
           v == [name |-> q, line |-> line,
                 id |-> IF endless THEN 0 ELSE nput[q] + 1]
       IN  IF closed[q]
           THEN /\ rpc' = [rpc EXCEPT ![q] = "AssertionError"]
                /\ UNCHANGED <<rv, nput, sinkQ, sunk>>
           ELSE /\ nput' = [nput EXCEPT ![q] = v.id]
                /\ IF deliverable(line)
                   THEN /\ rpc' = [rpc EXCEPT ![q] = "q.put"]
                        /\ rv' = [rv EXCEPT ![q] = v]
                        /\ IF disper = "sink"
                           THEN DispQueue_put(v)
                           ELSE UNCHANGED <<sinkQ, sunk>>
                   ELSE /\ rpc' = [rpc EXCEPT ![q] = rret[q]]
                        /\ UNCHANGED <<rv, sinkQ, sunk>>
    /\ rarg' = [rarg EXCEPT ![q] = ""]
    /\ UNCHANGED <<envVars, watcherVars, fh, fifo, closed, rret,
                   running, ppc, last_name, printed, spc, callVars,
                   delivered, consumed, callConsumed, lines, ending, onDone>>
    /\ UNCHANGED <<procVars, colorVars>>

\* put, its last statement: the record joins the private FIFO
put_q(q) ==
    /\ rpc[q] = "q.put"
    /\ fifo' = [fifo EXCEPT ![q] = Append(@, rv[q])]
    /\ delivered' = [delivered EXCEPT ![q] = Log(@, rv[q])]
    /\ rpc' = [rpc EXCEPT ![q] = rret[q]]
    /\ rv' = [rv EXCEPT ![q] = NoRecord]
    /\ UNCHANGED <<envVars, watcherVars, fh, closed, rarg, rret, dispVars,
                   callVars, consumed, callConsumed, lines, ending, sunk, nput, onDone>>
    /\ UNCHANGED <<procVars, colorVars>>

\* a close that marks the queue closed and then enqueues the EOF marker
close_flag_first(q) ==
    /\ rpc[q] = "close"
    /\ closed' = [closed EXCEPT ![q] = TRUE]
    /\ rv' = [rv EXCEPT ![q] = [name |-> q, line |-> EOFMarker, id |-> nput[q] + 1]]
    /\ nput' = [nput EXCEPT ![q] = @ + 1]
    /\ rret' = [rret EXCEPT ![q] = "done"]
    /\ rpc' = [rpc EXCEPT ![q] = "q.put"]
    /\ UNCHANGED <<envVars, watcherVars, fh, fifo, rarg, dispVars, callVars,
                   delivered, consumed, callConsumed, lines, ending, sunk, onDone>>
    /\ UNCHANGED <<procVars, colorVars>>

\* close, after its put() has returned: the queue is marked closed and the
\* worker returns
close(q) ==
    /\ rpc[q] = "close"
    /\ closed' = [closed EXCEPT ![q] = TRUE]
    /\ rpc' = [rpc EXCEPT ![q] = "done"]
    /\ UNCHANGED <<envVars, watcherVars, fh, fifo, rarg, rret, rv, dispVars,
                   callVars, histVars>>
    /\ UNCHANGED <<procVars, colorVars>>

\* _ScanQueue.empty, closed, done
empty(q) == fifo[q] = <<>>
done(q) == empty(q) /\ closed[q]

\* --------------------------------------------------------------- Watcher
\* the caller's thread is between two calls and may make another
CallerReady == cpc = "idle" /\ ncalls < MaxCalls

\* the first lines of every attach call: a started Watcher prints an error
\* and returns None
refuse ==
    /\ print("Error: this class can only do one stream at a time")
    /\ result' = "None"
    /\ ncalls' = ncalls + 1
    /\ UNCHANGED <<envVars, watcherVars, scanVars, running, ppc, last_name, printed,
                   spc, cpc, cq, cpat, cfail, ctimeout, matched,
                   delivered, consumed, callConsumed, lines, ending, nput, onDone>>
    /\ UNCHANGED <<procVars, colorVars>>

\* an attach call that raises before it has assigned anything (Popen,
\* connect or Serial failed)
attachRaises ==
    /\ result' = "raised"
    /\ ncalls' = ncalls + 1
    /\ UNCHANGED <<envVars, watcherVars, scanVars, dispVars, cpc, cq, cpat, cfail,
                   ctimeout, matched, histVars>>
    /\ UNCHANGED <<procVars, colorVars>>

\* Watcher.subprocess
subprocess ==
    /\ CallerReady
    /\ IF started THEN refuse
       ELSE \/ attachRaises
            \/ /\ proc_handle' = "Popen"
               /\ istream' = "stdin"
               /\ queues' = queues \cup {"stdout", "stderr"}
               /\ ScanQueue_init({"stdout", "stderr"})
               /\ t_wfx' = "started"
               /\ started' = TRUE
               /\ result' = "self"
               /\ ncalls' = ncalls + 1
               /\ child' = "running"
               /\ UNCHANGED <<envVars, disper, xformer, dispVars, cpc, cq,
                              cpat, cfail, ctimeout, matched, histVars>>
               /\ UNCHANGED <<exitcode, returncode, retcode, sent, waited, late,
                              colorVars>>

\* Watcher.serial.  Whether the pyserial module could be imported is not
\* kept in the state: a call may find it missing, print an error and return
\* None.
Watcher_serial ==
    /\ CallerReady
    /\ \/ /\ print("Error: pyserial module not instaled")
          /\ result' = "None"
          /\ ncalls' = ncalls + 1
          /\ UNCHANGED <<envVars, watcherVars, scanVars, running, ppc, last_name,
                         printed, spc, cpc, cq, cpat, cfail, ctimeout,
                         matched, delivered, consumed, callConsumed, lines, ending,
                         nput, onDone>>
       \/ IF started THEN refuse
          ELSE \/ attachRaises
               \/ /\ print("Opened serial port")
                  /\ istream' = "Serial"
                  /\ queues' = queues \cup {WatcherName}
                  /\ ScanQueue_init({WatcherName})
                  /\ started' = TRUE
                  /\ result' = "self"
                  /\ ncalls' = ncalls + 1
                  /\ UNCHANGED <<envVars, disper, xformer, proc_handle, t_wfx,
                                 running, ppc, last_name, printed, spc, cpc, cq, cpat,
                                 cfail, ctimeout, matched, delivered, consumed,
                                 callConsumed, lines, ending, nput, onDone>>
    /\ UNCHANGED <<procVars, colorVars>>

\* a socket call that does not test self.started
Watcher_socket_again ==
    /\ CallerReady
    /\ print("Socket opened successfully")
    /\ istream' = "socket"
    /\ queues' = queues \cup {WatcherName}
    /\ ScanQueue_init({WatcherName})
    /\ started' = TRUE
    /\ result' = "self"
    /\ ncalls' = ncalls + 1
    /\ UNCHANGED <<envVars, disper, xformer, proc_handle, t_wfx,
                   running, ppc, last_name, printed, spc, cpc, cq, cpat,
                   cfail, ctimeout, matched, delivered, consumed,
                   callConsumed, lines, ending, nput, onDone>>
    /\ UNCHANGED <<procVars, colorVars>>

\* Watcher.socket
Watcher_socket ==
    /\ CallerReady
    /\ IF started THEN refuse
       ELSE \/ attachRaises
            \/ /\ print("Socket opened successfully")
               /\ istream' = "socket"
               /\ queues' = queues \cup {WatcherName}
               /\ ScanQueue_init({WatcherName})
               /\ started' = TRUE
               /\ result' = "self"
               /\ ncalls' = ncalls + 1
               /\ UNCHANGED <<envVars, disper, xformer, proc_handle, t_wfx,
                              running, ppc, last_name, printed, spc, cpc, cq, cpat,
                              cfail, ctimeout, matched, delivered, consumed,
                              callConsumed, lines, ending, nput, onDone>>
    /\ UNCHANGED <<procVars, colorVars>>

\* Watcher.ssh: its own test of started, then the subprocess call
ssh ==
    /\ CallerReady
    /\ IF started THEN refuse ELSE subprocess

\* the queue watchFor resolves: the only one, or stdout/stderr of the two
qname(stderr) ==
    IF Cardinality(queues) = 1 THEN CHOOSE q \in queues : TRUE
    ELSE IF stderr THEN "stderr" ELSE "stdout"

\* watchFor, up to the loop: the queue is resolved, the patterns compiled
\* and the start time taken.  With no queue attached qname is never
\* assigned, and reading it raises UnboundLocalError.
watchFor(pattern, failpats, timeout, stderr) ==
    /\ CallerReady
    /\ ncalls' = ncalls + 1
    /\ callConsumed' = <<>>
    /\ matched' = NoRecord
    /\ IF Cardinality(queues) \notin {1, 2}
       THEN /\ result' = "UnboundLocalError"
            /\ UNCHANGED <<cpc, cq, cpat, cfail, ctimeout, sinkQ, sunk>>
       ELSE IF qname(stderr) \notin queues
       THEN /\ print("Queue not found")
            /\ result' = "WatcherException"
            /\ UNCHANGED <<cpc, cq, cpat, cfail, ctimeout>>
       ELSE /\ cq' = qname(stderr)
            /\ cpat' = pattern
            /\ cfail' = failpats
            /\ ctimeout' = timeout
            /\ result' = "running"
            /\ cpc' = "while"
            /\ UNCHANGED <<sinkQ, sunk>>
    /\ onDone' = (Cardinality(queues) \in {1, 2} /\ done(qname(stderr)))
    /\ UNCHANGED <<envVars, watcherVars, scanVars, running, ppc, last_name, printed,
                   spc, delivered, consumed, lines, ending, nput>>
    /\ UNCHANGED <<procVars, colorVars>>

\* the call ends with r (a return or a raise): its locals are gone
return(r) ==
    /\ result' = r
    /\ cpc' = "idle"
    /\ cq' = ""
    /\ cpat' = ""
    /\ cfail' = <<>>
    /\ ctimeout' = 0
    /\ elapsed' = 0

\* the call goes on at pc
goto(pc) ==
    /\ cpc' = pc
    /\ UNCHANGED <<result, cq, cpat, cfail, ctimeout, elapsed>>

\* watchFor, the head of its loop: the deadline is tested before the search
watchFor_deadline ==
    /\ cpc = "while"
    /\ IF elapsed > ctimeout THEN return("Timeout") ELSE goto("search")
    /\ UNCHANGED <<endless, watcherVars, scanVars, dispVars, matched, ncalls,
                   histVars>>
    /\ UNCHANGED <<procVars, colorVars>>

\* a search that takes no notice of the fail patterns
firstFail_never(failpats, line) == 0

\* the first of the fail patterns that matches the line, or 0
firstFail(failpats, line) ==
    IF \E i \in 1..Len(failpats) : search(failpats[i], line)
    THEN CHOOSE i \in 1..Len(failpats) :
            /\ search(failpats[i], line)
            /\ \A j \in 1..(i - 1) : ~search(failpats[j], line)
    ELSE 0

\* a get that returns the oldest record and leaves it in the queue
get_peek(q) == fifo' = fifo

\* _ScanQueue.get on a queue that is not empty
get(q) == fifo' = [fifo EXCEPT ![q] = Tail(@)]

\* a search that, on a hit, drains the rest of the batch as well
internalSearcher_line_batch ==
    /\ cpc = "search"
    /\ ~empty(cq)
    /\ LET v == Head(fifo[cq])
           line == v.line
           hit == line # None /\ line # ""
                  /\ (firstFail(cfail, line) # 0 \/ search(cpat, line))
       IN  /\ fifo' = [fifo EXCEPT ![cq] = IF hit THEN <<>> ELSE Tail(@)]
           /\ consumed' = [consumed EXCEPT ![cq] =
                              IF hit THEN @ \o fifo[cq] ELSE Log(@, v)]
           /\ callConsumed' = IF hit THEN callConsumed \o fifo[cq]
                                     ELSE Log(callConsumed, v)
           /\ IF line # None /\ line # "" /\ firstFail(cfail, line) # 0
              THEN return("FailPatFound") /\ matched' = matched
              ELSE IF line # None /\ line # "" /\ search(cpat, line)
              THEN return("match") /\ matched' = v
              ELSE goto("search") /\ matched' = matched
    /\ UNCHANGED <<endless, watcherVars, fh, closed, rpc, rarg, rret, rv, dispVars,
                   ncalls, delivered, lines, ending, sunk, nput, onDone>>
    /\ UNCHANGED <<procVars, colorVars>>

\* a search that tests the success pattern before the fail patterns
internalSearcher_line_patfirst ==
    /\ cpc = "search"
    /\ ~empty(cq)
    /\ LET v == Head(fifo[cq])
           line == v.line
       IN  /\ get(cq)
           /\ consumed' = [consumed EXCEPT ![cq] = Log(@, v)]
           /\ callConsumed' = Log(callConsumed, v)
           /\ IF line # None /\ line # "" /\ search(cpat, line)
              THEN return("match") /\ matched' = v
              ELSE IF line # None /\ line # "" /\ firstFail(cfail, line) # 0
              THEN return("FailPatFound") /\ matched' = matched
              ELSE goto("search") /\ matched' = matched
    /\ UNCHANGED <<endless, watcherVars, fh, closed, rpc, rarg, rret, rv, dispVars,
                   ncalls, delivered, lines, ending, sunk, nput, onDone>>
    /\ UNCHANGED <<procVars, colorVars>>

\* _internalSearcher, one turn of its loop on a queue that is not empty: the
\* oldest record is taken and its line tested, the fail patterns first
internalSearcher_line ==
    /\ cpc = "search"
    /\ ~empty(cq)
    /\ LET v == Head(fifo[cq])
           line == v.line
       IN  /\ get(cq)
           /\ consumed' = [consumed EXCEPT ![cq] = Log(@, v)]
           /\ callConsumed' = Log(callConsumed, v)
           /\ IF line # None /\ line # "" /\ firstFail(cfail, line) # 0
              THEN return("FailPatFound") /\ matched' = matched
              ELSE IF line # None /\ line # "" /\ search(cpat, line)
              THEN return("match") /\ matched' = v
              ELSE goto("search") /\ matched' = matched
    /\ UNCHANGED <<endless, watcherVars, fh, closed, rpc, rarg, rret, rv, dispVars,
                   ncalls, delivered, lines, ending, sunk, nput, onDone>>
    /\ UNCHANGED <<procVars, colorVars>>

\* _internalSearcher, its loop finds the queue empty and ends
internalSearcher_drained ==
    /\ cpc = "search"
    /\ empty(cq)
    /\ goto("q.empty")
    /\ UNCHANGED <<endless, watcherVars, scanVars, dispVars, matched, ncalls,
                   histVars>>
    /\ UNCHANGED <<procVars, colorVars>>

\* _internalSearcher, after the loop: q.empty() is read.  On a queue that is
\* not empty the search returns None, and watchFor sleeps and loops.
internalSearcher_empty ==
    /\ cpc = "q.empty"
    /\ IF empty(cq) THEN goto("q.closed") ELSE goto("while")
    /\ UNCHANGED <<endless, watcherVars, scanVars, dispVars, matched, ncalls,
                   histVars>>
    /\ UNCHANGED <<procVars, colorVars>>

\* _internalSearcher, after the loop: q.closed() is read.  A closed queue
\* raises WatcherNotFoundException; on an open one the search returns None,
\* and watchFor sleeps and loops.
internalSearcher_closed ==
    /\ cpc = "q.closed"
    /\ IF closed[cq] THEN return("NotFound") ELSE goto("while")
    /\ UNCHANGED <<endless, watcherVars, scanVars, dispVars, matched, ncalls,
                   histVars>>
    /\ UNCHANGED <<procVars, colorVars>>

\* time passes while a call runs; past the deadline its value no longer
\* matters to the test of the deadline
Tick ==
    /\ cpc # "idle"
    /\ elapsed <= ctimeout
    /\ elapsed' = elapsed + 1
    /\ UNCHANGED <<endless, watcherVars, scanVars, dispVars, callVars, histVars>>
    /\ UNCHANGED <<procVars, colorVars>>

\* ------------------------------------------------------- the subprocess
\* the caller's thread is between two calls on its subprocess
ProcReady == cpc = "idle" /\ ncalls < MaxProcCalls

\* process_companion.py: the reader returns when it is sent "stop", and the
\* process ends with status 0
child_stop ==
    /\ child = "running"
    /\ \E i \in 1..Len(sent) : sent[i] \in {"stop\r\n", "stop"}
    /\ child' = "exited"
    /\ exitcode' = "0"
    /\ UNCHANGED <<envVars, watcherVars, scanVars, dispVars, callVars, histVars,
                   returncode, retcode, sent, waited, late, colorVars>>

\* the command Popen was given ends on its own, with another status
child_dies ==
    /\ child = "running"
    /\ child' = "exited"
    /\ exitcode' = "1"
    /\ UNCHANGED <<envVars, watcherVars, scanVars, dispVars, callVars, histVars,
                   returncode, retcode, sent, waited, late, colorVars>>

\* _subp_watchForExit: proc_handle.wait() returns once the child has exited
subp_watchForExit_wait ==
    /\ t_wfx = "started"
    /\ child = "exited"
    /\ returncode' = exitcode
    /\ t_wfx' = "retcode"
    /\ UNCHANGED <<envVars, disper, xformer, started, queues, istream, proc_handle,
                   scanVars, dispVars, callVars, histVars, child, exitcode,
                   retcode, sent, waited, late, colorVars>>

\* a worker that waits for the child and does not record its status
subp_watchForExit_forget ==
    /\ t_wfx = "retcode"
    /\ t_wfx' = "print"
    /\ UNCHANGED <<envVars, disper, xformer, started, queues, istream, proc_handle,
                   scanVars, dispVars, callVars, histVars, procVars, colorVars>>

\* _subp_watchForExit: self.retcode = self.proc_handle.returncode
subp_watchForExit_retcode ==
    /\ t_wfx = "retcode"
    /\ retcode' = returncode
    /\ late' = (cpc \in {"wait.while", "wait.if"} /\ ctimeout > 0 /\ elapsed > ctimeout)
    /\ t_wfx' = "print"
    /\ UNCHANGED <<envVars, disper, xformer, started, queues, istream, proc_handle,
                   scanVars, dispVars, callVars, histVars, child, exitcode,
                   returncode, sent, waited, colorVars>>

\* _subp_watchForExit: the exit is reported
subp_watchForExit_print ==
    /\ t_wfx = "print"
    /\ print("exited status")
    /\ t_wfx' = "done"
    /\ UNCHANGED <<envVars, disper, xformer, started, queues, istream, proc_handle,
                   scanVars, running, ppc, last_name, printed, spc, callVars,
                   delivered, consumed, callConsumed, lines, ending, nput, onDone,
                   procVars, colorVars>>

\* wait_subp_done, up to the loop: the start time is taken
wait_subp_done(timeout) ==
    /\ ProcReady
    /\ ncalls' = ncalls + 1
    /\ ctimeout' = timeout
    /\ result' = "running"
    /\ cpc' = "wait.while"
    /\ late' = FALSE
    /\ UNCHANGED <<envVars, watcherVars, scanVars, dispVars, cq, cpat, cfail,
                   matched, histVars, child, exitcode, returncode, retcode, sent,
                   waited, colorVars>>

\* a loop test that leaves out `or timeout == 0`
wait_subp_done_while_bounded ==
    /\ cpc = "wait.while"
    /\ IF elapsed < ctimeout THEN goto("wait.if") ELSE return("Timeout")
    /\ UNCHANGED <<endless, watcherVars, scanVars, dispVars, matched, ncalls,
                   histVars, procVars, colorVars>>

\* wait_subp_done, the loop test: time.time() < now + timeout or timeout == 0
wait_subp_done_while ==
    /\ cpc = "wait.while"
    /\ IF elapsed < ctimeout \/ ctimeout = 0
       THEN goto("wait.if")
       ELSE return("Timeout")
    /\ UNCHANGED <<endless, watcherVars, scanVars, dispVars, matched, ncalls,
                   histVars, procVars, colorVars>>

\* wait_subp_done, the loop body: self.retcode is read, and returned if set
wait_subp_done_if ==
    /\ cpc = "wait.if"
    /\ IF retcode # None
       THEN return(retcode) /\ waited' = TRUE
       ELSE goto("wait.while") /\ UNCHANGED waited
    /\ UNCHANGED <<endless, watcherVars, scanVars, dispVars, matched, ncalls,
                   histVars, child, exitcode, returncode, retcode, sent, late,
                   colorVars>>

\* proc_running: proc_handle.poll() == None.  A Watcher that never ran
\* subprocess() has no proc_handle attribute.  poll() gives the status that
\* wait() has collected; when the child has exited and wait() has not
\* returned yet, poll() either collects the status itself or, wait() holding
\* the handle's lock, gives None.
proc_running ==
    /\ ProcReady
    /\ ncalls' = ncalls + 1
    /\ IF proc_handle = "unset"
       THEN result' = "AttributeError" /\ UNCHANGED returncode
       ELSE IF returncode # None
       THEN result' = "False" /\ UNCHANGED returncode
       ELSE IF child = "exited"
       THEN \/ result' = "True" /\ UNCHANGED returncode
            \/ result' = "False" /\ returncode' = exitcode
       ELSE result' = "True" /\ UNCHANGED returncode
    /\ UNCHANGED <<envVars, watcherVars, scanVars, dispVars, cpc, cq, cpat, cfail,
                   ctimeout, matched, histVars, child, exitcode, retcode, sent,
                   waited, late, colorVars>>

\* what send() writes for a value that comes by keyword kind
wire(kind, payload) ==
    IF kind = "text" THEN strip(payload) \o "\r\n" ELSE payload

\* the write to the input sink fails: the child has exited and its pipe is
\* broken, or the peer of a socket or of a serial port is gone
peerGone == IF istream = "stdin" THEN child = "exited" ELSE TRUE

\* Watcher.send
send(kind, payload) ==
    /\ ProcReady
    /\ ncalls' = ncalls + 1
    /\ IF istream = None
       THEN result' = "None" /\ UNCHANGED sent
       ELSE IF kind = "json"
       THEN result' = "TypeError" /\ UNCHANGED sent
       ELSE \/ /\ istream = "stdin" => child = "running"
               /\ sent' = Append(sent, wire(kind, payload))
               /\ result' = "None"
            \/ /\ peerGone
               /\ result' = "BrokenPipeError"
               /\ UNCHANGED sent
    /\ UNCHANGED <<envVars, watcherVars, scanVars, dispVars, cpc, cq, cpat, cfail,
                   ctimeout, matched, histVars, child, exitcode, returncode,
                   retcode, waited, late, colorVars>>

\* ------------------------------------------------------------------ Spec
\* the state after Watcher(): nothing attached
InitWith(e, d, c) ==
    /\ elapsed = 0
    /\ endless = e
    /\ disper = d
    /\ xformer \in XFormers
    /\ started = FALSE
    /\ queues = {}
    /\ istream = "None"
    /\ proc_handle = "unset"
    /\ t_wfx = "unset"
    /\ fh = [q \in QNames |-> "none"]
    /\ fifo = [q \in QNames |-> <<>>]
    /\ closed = [q \in QNames |-> FALSE]
    /\ rpc = [q \in QNames |-> "none"]
    /\ rarg = [q \in QNames |-> ""]
    /\ rret = [q \in QNames |-> "read"]
    /\ rv = [q \in QNames |-> NoRecord]
    /\ sinkQ = <<>>
    /\ running = TRUE
    /\ ppc = "while"
    /\ last_name = ""
    /\ printed = <<>>
    /\ spc = "idle"
    /\ cpc = "idle"
    /\ cq = ""
    /\ cpat = ""
    /\ cfail = <<>>
    /\ ctimeout = 0
    /\ result = "none"
    /\ matched = NoRecord
    /\ ncalls = 0
    /\ delivered = [q \in QNames |-> <<>>]
    /\ consumed = [q \in QNames |-> <<>>]
    /\ callConsumed = <<>>
    /\ lines = [q \in QNames |-> <<>>]
    /\ ending = [q \in QNames |-> "open"]
    /\ sunk = <<>>
    /\ nput = [q \in QNames |-> 0]
    /\ onDone = FALSE
    /\ child = "none"
    /\ exitcode = None
    /\ returncode = None
    /\ retcode = None
    /\ sent = <<>>
    /\ waited = FALSE
    /\ late = FALSE
    /\ colorize \in c
    /\ colorlist = [n \in {} |-> ""]
    /\ color_index = NoIndex
    /\ style_index = NoIndex

\* a Watcher made with disper=None, on sources that end
Init == InitWith(FALSE, "none", {FALSE})

\* a Watcher on the Console Sink, on sources that end
InitScan == InitWith(FALSE, "sink", {FALSE})

\* a Watcher on the Console Sink, which prints with or without colours
InitSink == InitWith(FALSE, "sink", BOOLEAN)

\* a Watcher made with disper=None, on sources that never end
InitLive == InitWith(TRUE, "none", {FALSE})

\* the failpats a caller passes: none, one that differs from the pattern and
\* one that matches what the pattern matches
FailPats == {<<>>, <<"err">>, <<"ok">>}

Attach == subprocess \/ Watcher_serial \/ Watcher_socket \/ ssh

Reader ==
    \E q \in QNames :
        \/ readLineAndQPut_line(q)
        \/ readLineAndQPut_eof(q)
        \/ readLineAndQPut_exc(q)
        \/ readLineAndQPut_except(q)
        \/ put(q)
        \/ put_q(q)
        \/ close(q)

Caller ==
    \/ \E pattern \in {"ok"}, failpats \in FailPats, timeout \in Timeouts,
          stderr \in BOOLEAN : watchFor(pattern, failpats, timeout, stderr)
    \/ watchFor_deadline
    \/ internalSearcher_line
    \/ internalSearcher_drained
    \/ internalSearcher_empty
    \/ internalSearcher_closed

Next == Attach \/ Reader \/ Caller \/ Tick

Spec == Init /\ [][Next]_vars

\* the attach calls and the reader workers alone, feeding the Console Sink
NextScan == Attach \/ Reader

SpecScan == InitScan /\ [][NextScan]_vars

\* the Console Sink: its worker and a stop() call, with a Watcher on a socket
\* and the worker of its queue as the producers
printLoop == printLoop_running \/ printLoop_empty \/ printLoop_print \/ printLoop_timeout
stop == stop_flag \/ stop_put \/ stop_join
NextSink == Watcher_socket \/ Reader \/ printLoop \/ stop
SpecSink == InitSink /\ [][NextSink]_vars

\* a Watcher on a socket that never ends, and a caller: every thread that can
\* run does run in the end, and time passes
ReaderLive(q) == readLineAndQPut_line(q) \/ put(q) \/ put_q(q)
CallerStep ==
    \/ watchFor_deadline
    \/ internalSearcher_line
    \/ internalSearcher_drained
    \/ internalSearcher_empty
    \/ internalSearcher_closed
NextLive == Watcher_socket \/ (\E q \in QNames : ReaderLive(q)) \/ Caller \/ Tick
SpecLive ==
    /\ InitLive
    /\ [][NextLive]_vars
    /\ WF_vars(CallerStep)
    /\ WF_vars(Tick)
    /\ \A q \in QNames : WF_vars(ReaderLive(q))

\* a Watcher on a subprocess: the child, the exit-watch worker and the
\* caller's send, wait_subp_done and proc_running.  The caller's loop and the
\* worker go on running, and a child that was told to stop does stop.
Child == child_stop \/ child_dies
WatchForExit ==
    subp_watchForExit_wait \/ subp_watchForExit_retcode \/ subp_watchForExit_print
WaitStep == wait_subp_done_while \/ wait_subp_done_if
Send == \E kind \in SendKinds, payload \in Payloads : send(kind, payload)
NextProc ==
    \/ subprocess
    \/ Send
    \/ \E timeout \in Timeouts : wait_subp_done(timeout)
    \/ WaitStep
    \/ proc_running
    \/ Child
    \/ WatchForExit
    \/ Tick
SpecProc ==
    /\ Init
    /\ [][NextProc]_vars
    /\ WF_vars(WaitStep)
    /\ WF_vars(WatchForExit)
    /\ WF_vars(child_stop)

\* the colour allocator alone, called from anywhere
NextColor == getnextcolor \/ getnextstyle
SpecColor == Init /\ [][NextColor]_vars

\* ------------------------------------------------------------ properties
Last(s) == s[Len(s)]
IsPrefix(s, t) == Len(s) <= Len(t) /\ \A i \in 1..Len(s) : s[i] = t[i]
Outcomes == {"match", "FailPatFound", "NotFound", "Timeout"}

\* C1: watchFor raises NotFound only in a state where the queue it searches
\* is closed and its private FIFO holds no record.
C1_NotFoundOnlyWhenDone ==
    [][(result = "running" /\ result' = "NotFound") => done(cq)]_vars

\* C3: a watchFor call that begins on a queue which is closed and empty ends
\* with NotFound, never with Timeout (nor any other outcome), whatever its
\* timeout.
C3_NotFoundNeverTimeout ==
    onDone => result \notin (Outcomes \ {"NotFound"})

\* C4: a call that takes a line matching one of its fail patterns raises
\* FailPatFound on that very step, and from then on takes nothing more; and
\* FailPatFound is raised by nothing else: the line taken last matched a
\* fail pattern, and no line taken before it matched the success pattern.
C4_FailPatternFirst ==
    [][/\ ( /\ result = "running"
            /\ callConsumed' # callConsumed
            /\ \E i \in 1..Len(cfail) : search(cfail[i], Last(callConsumed').line) )
          => (result' = "FailPatFound" /\ cpc' = "idle")
       /\ (result = "running" /\ result' = "FailPatFound")
          => /\ callConsumed' = Append(callConsumed, Head(fifo[cq]))
             /\ \E i \in 1..Len(cfail) : search(cfail[i], Last(callConsumed').line)
             /\ \A k \in 1..Len(callConsumed) : ~search(cpat, callConsumed[k].line)
       /\ (result = "FailPatFound" /\ result' = "FailPatFound")
          => UNCHANGED <<consumed, callConsumed, matched>>
      ]_vars

\* a call has raised FailPatFound on a line, with an "ok" line queued right
\* behind it and left there
C4_Witness ==
    /\ result = "FailPatFound"
    /\ callConsumed # <<>>
    /\ Last(callConsumed).line = "err"
    /\ fifo[Last(callConsumed).name] # <<>>
    /\ Head(fifo[Last(callConsumed).name]).line = "ok"

\* C5: no record is taken from a private FIFO twice, and no record that was
\* taken is in the FIFO again.
C5_NoReplay ==
    \A q \in QNames :
        /\ \A i, j \in 1..Len(consumed[q]) :
              i # j => consumed[q][i] # consumed[q][j]
        /\ \A i \in 1..Len(consumed[q]), k \in 1..Len(fifo[q]) :
              fifo[q][k] # consumed[q][i]

\* a call has ended after taking one record of a queue from which an
\* earlier call had taken a record already
C5_Witness ==
    /\ result \in Outcomes
    /\ Len(callConsumed) = 1
    /\ Len(consumed[callConsumed[1].name]) = 2

\* C6: a step of watchFor takes at most the oldest record of the queue, also
\* the step that hits the success or a fail pattern: the records behind it
\* stay in the FIFO, in their order, and every later take is of the oldest of
\* them.
C6_RestLeftInOrder ==
    [][\A q \in QNames :
          /\ delivered'[q] = consumed'[q] \o fifo'[q]
          /\ consumed'[q] # consumed[q]
             => /\ fifo[q] # <<>>
                /\ consumed'[q] = Append(consumed[q], Head(fifo[q]))
                /\ fifo'[q] = Tail(fifo[q])
          /\ consumed'[q] = consumed[q] => IsPrefix(fifo[q], fifo'[q])
          /\ (result = "running" /\ result' \in {"match", "FailPatFound"} /\ q = cq)
             => consumed'[q] # consumed[q]
      ]_vars

\* a call matched the first record of a queue, and the next call took the
\* record that was behind it
C6_Witness ==
    \E q \in QNames :
        /\ Len(consumed[q]) = 2
        /\ consumed[q][1].line = "ok"
        /\ callConsumed = <<consumed[q][2]>>
        /\ result \in Outcomes

\* the records of source q in a sequence of sink records
ofSource(s, q) == LET from(v) == v.name = q IN SelectSeq(s, from)

\* the lines of the records of s that put() made from lines of text of
\* source q, and of those it made from markers
textLines(s, q) ==
    LET text(v) == v.id <= Len(lines[q])
        t == SelectSeq(s, text)
    IN  [i \in 1..Len(t) |-> t[i].line]
markerLines(s, q) ==
    LET marker(v) == v.id > Len(lines[q])
        t == SelectSeq(s, marker)
    IN  [i \in 1..Len(t) |-> t[i].line]

\* the worker of q is not inside a put()
atRest(q) == rpc[q] \notin {"put", "q.put"}

\* the lines read from q, stripped, without the empty ones
strippedLines(q) ==
    LET notEmpty(l) == l # ""
    IN  SelectSeq([i \in 1..Len(lines[q]) |-> rstrip(lines[q][i])], notEmpty)

\* the lines read from q, stripped and transformed, without those put() drops
putLines(q) ==
    SelectSeq([i \in 1..Len(lines[q]) |-> ApplyXformer(xformer, rstrip(lines[q][i]))],
              deliverable)

\* C2 as stated: the private FIFO and the Console Sink get the lines read,
\* stripped, in their order, each once, without the empty ones only.
C2_OnlyEmptyStrippedOmitted ==
    \A q \in QNames :
        atRest(q) => /\ textLines(delivered[q], q) = strippedLines(q)
                     /\ textLines(ofSource(sunk, q), q) = strippedLines(q)

\* C2, amended: the private FIFO and the Console Sink get the same records
\* in the same order, each once: the lines read, stripped and passed through
\* the xformer, in their order, without those that are then empty or None.
C2_SameRecordsSameOrder ==
    \A q \in QNames :
        /\ atRest(q) => /\ textLines(delivered[q], q) = putLines(q)
                        /\ ofSource(sunk, q) = delivered[q]
        /\ rpc[q] = "q.put" => ofSource(sunk, q) = Append(delivered[q], rv[q])
        /\ rpc[q] = "put" => ofSource(sunk, q) = delivered[q]

\* two lines were read from a source with an xformer that blanks the first:
\* the FIFO and the sink hold the second alone
C2_Witness ==
    \E q \in QNames :
        /\ xformer = "filter"
        /\ lines[q] = <<"err\n", "ok\n">>
        /\ rpc[q] = "read"
        /\ textLines(delivered[q], q) = <<"ok">>
        /\ ofSource(sunk, q) = delivered[q]

\* C7 as stated: a worker that has ended has delivered exactly one marker to
\* the private FIFO and to the Console Sink, and has closed the queue.
C7_ExactlyOneSentinel ==
    \A q \in QNames :
        rpc[q] = "done" => /\ Len(markerLines(delivered[q], q)) = 1
                           /\ Len(markerLines(ofSource(sunk, q), q)) = 1
                           /\ closed[q]

\* C10: on a started Watcher every attach call returns None and leaves the
\* queues, their workers, the input sink, the process handle and the
\* exit-watch worker as they were.
C10_LaterAttachNoOp ==
    [][(started /\ Attach)
       => /\ result' = "None"
          /\ UNCHANGED <<started, queues, istream, proc_handle, t_wfx, scanVars>>
      ]_vars

\* an attach call on a started Watcher has returned None
C10_Witness ==
    /\ started
    /\ result = "None"
    /\ ncalls >= 2
    /\ \E q \in QNames : rpc[q] # "none"

\* the record that was printed as the i-th
printedRecord(i) == [name |-> printed[i].name, line |-> printed[i].line, id |-> printed[i].id]

\* C8: when stop() returns the worker has exited and every record that was
\* enqueued into the sink, up to and including the record of stop() itself,
\* has been printed.
C8_StopLosesNoRecord ==
    spc = "returned"
    => /\ ppc = "done"
       /\ \A i \in 1..Len(sunk) :
            (\E j \in i..Len(sunk) : sunk[j].name = "DispQueue" /\ sunk[j].line = "stopping")
            => /\ i <= Len(printed)
               /\ printedRecord(i) = sunk[i]

\* stop() has returned and its record is among those enqueued
C8_Witness ==
    /\ spc = "returned"
    /\ \E j \in 1..Len(sunk) : sunk[j].name = "DispQueue" /\ sunk[j].line = "stopping"
    /\ Len(sunk) >= 2

\* C9: every watchFor call ends, whatever the worker of its queue does.
C9_WatchForEnds == (result = "running") ~> (result # "running")

\* the caller is inside a wait_subp_done call
inWait == cpc \in {"wait.while", "wait.if"}

\* "stop" has been written to the child's input
stopSent == \E i \in 1..Len(sent) : sent[i] = "stop\r\n"

\* C11: a wait_subp_done() (timeout 0) on a subprocess that was sent "stop"
\* returns in the end, and what it returns is the child's exit status; once
\* a wait_subp_done has returned, every proc_running() returns False.
C11_WaitReturnsThenNotRunning ==
    /\ (inWait /\ ctimeout = 0 /\ stopSent)
          ~> (cpc = "idle" /\ waited /\ result = exitcode)
    /\ [][(waited /\ proc_running) => result' = "False"]_vars

\* "stop" was sent, wait_subp_done() has returned 0, and a proc_running()
\* after it has returned False
C11_Witness ==
    /\ stopSent
    /\ waited
    /\ exitcode = "0"
    /\ retcode = "0"
    /\ result = "False"

\* the parts of C12 that do not depend on the deadline: wait_subp_done
\* returns only the value of self.retcode, which is set once and never
\* changed, and with timeout 0 it never raises Timeout
waitReturnsRetcode ==
    /\ [][(inWait /\ cpc' = "idle" /\ result' # "Timeout")
            => (retcode # None /\ result' = retcode /\ retcode = exitcode)]_vars
    /\ [][retcode # None => retcode' = retcode]_vars
    /\ [][(inWait /\ ctimeout = 0) => result' # "Timeout"]_vars

\* C12 as stated: with timeout > 0 a call whose deadline passes before the
\* exit code is set ends with Timeout.
C12_TimeoutIfNotSetByDeadline ==
    /\ waitReturnsRetcode
    /\ [][(inWait /\ cpc' = "idle" /\ ctimeout > 0 /\ (late \/ retcode = None))
            => result' = "Timeout"]_vars

\* C12, amended: with timeout > 0 the call raises Timeout exactly at a test
\* of the deadline that finds it passed; until that test a read that finds
\* the exit code set returns it, also when it was set past the deadline.
C12_TimeoutAtDeadlineTest ==
    /\ waitReturnsRetcode
    /\ [][(inWait /\ result' = "Timeout")
            => (cpc = "wait.while" /\ ctimeout > 0 /\ elapsed >= ctimeout)]_vars
    /\ [][(cpc = "wait.while" /\ ctimeout > 0 /\ elapsed >= ctimeout /\ cpc' # cpc)
            => result' = "Timeout"]_vars

\* a call with timeout > 0 has returned an exit code that was set past its
\* deadline
C12_Witness ==
    /\ late
    /\ waited
    /\ cpc = "idle"
    /\ result = retcode
    /\ result \in ExitCodes

\* C13: a write that fails inside send() is not raised to the caller, and
\* send() on a Watcher without an input sink returns without raising and
\* leaves the Watcher as it was.
C13_SendNeverRaisesWriteFailure ==
    [][Send => /\ result' # "BrokenPipeError"
               /\ istream = None
                    => (result' = "None" /\ UNCHANGED <<watcherVars, scanVars, procVars>>)
      ]_vars

\* the serialized text form of a string value
dumps(v) == "\"" \o v \o "\""

\* C14: send(json=v) on a Watcher with an input sink writes one message, the
\* serialized form of v and a line terminator, and returns without raising.
C14_SendJsonWritesOneMessage ==
    [][\A v \in Payloads :
          (istream # None /\ send("json", v))
          => (result' = "None" /\ sent' = Append(sent, dumps(v) \o "\n"))
      ]_vars

\* the n-th entry of the rotation through a palette without its first and
\* its last entry
rotation(palette, n) == at(palette, 1 + (n % (Len(palette) - 2)))

\* C15: getnextcolor and getnextstyle each advance their own counter and
\* return the entry of their palette that the rotation gives for that
\* counter, which is never the first nor the last entry.
C15_NextSkipsFirstAndLast ==
    [][/\ getnextcolor => /\ result' = rotation(colors, color_index')
                          /\ result' \notin {at(colors, 0), at(colors, Len(colors) - 1)}
       /\ getnextstyle => /\ result' = rotation(styles, style_index')
                          /\ result' \notin {at(styles, 0), at(styles, Len(styles) - 1)}
      ]_vars

\* the names of the records of s, each once, in the order they first appear
RECURSIVE firstSeen(_)
firstSeen(s) ==
    IF s = <<>> THEN <<>>
    ELSE LET r == firstSeen(SubSeq(s, 1, Len(s) - 1))
             n == s[Len(s)].name
         IN  IF \E i \in 1..Len(r) : r[i] = n THEN r ELSE Append(r, n)

\* C16: with colours, the N-th name to be printed for the first time has the
\* N-th colour of the rotation, one colour is taken per name, every record is
\* printed in the colour of its name, and an entry of colorlist is never
\* removed or changed.
C16_NthNameNthColor ==
    /\ [](colorize =>
            LET r == firstSeen(printed)
            IN  /\ DOMAIN colorlist = {r[i] : i \in 1..Len(r)}
                /\ \A i \in 1..Len(r) : colorlist[r[i]] = rotation(colors, i)
                /\ color_index = IF r = <<>> THEN NoIndex ELSE Len(r)
                /\ \A k \in 1..Len(printed) :
                      printed[k].color = colorlist[printed[k].name])
    /\ [][\A n \in DOMAIN colorlist :
             n \in DOMAIN colorlist' /\ colorlist'[n] = colorlist[n]]_vars

\* with colours, two names have been printed and one of them twice
C16_Witness ==
    /\ colorize
    /\ Len(firstSeen(printed)) = 2
    /\ Len(printed) >= 3
    /\ color_index = 2

\* C20: the worker prints the records that arrived at the sink, each once
\* and in the order of their arrival, those not printed yet waiting in that
\* order; the name of a record is printed blank exactly when it is the name
\* of the record printed before it.
C20_PrintedInArrivalOrder ==
    /\ [i \in 1..Len(printed) |-> printedRecord(i)] \o sinkQ = sunk
    /\ \A i \in 1..Len(printed) :
          printed[i].shown =
              IF i > 1 /\ printed[i].name = printed[i - 1].name
              THEN "" ELSE printed[i].name

\* records of two sources have been printed, one with its name blank and a
\* later one with its name
C20_Witness ==
    /\ Len(printed) >= 3
    /\ \E i, j \in 1..Len(printed) :
          /\ i < j
          /\ printed[i].shown = ""
          /\ printed[j].shown # ""
          /\ printed[j].name # printed[i].name

\* the exceptions of watcher.py, by the names watchFor ends with
WatcherErrors == {"WatcherException", "Timeout", "NotFound", "FailPatFound"}

\* C17: a watchFor call ends with a match or with one of the Watcher
\* exceptions, also on a Watcher to which nothing was attached.
C17_WatchForRaisesWatcherErrors ==
    [][/\ (\E failpats \in FailPats, timeout \in Timeouts, stderr \in BOOLEAN :
              watchFor("ok", failpats, timeout, stderr))
          => result' \in WatcherErrors \cup {"running"}
       /\ (result = "running" /\ result' # "running")
          => result' \in WatcherErrors \cup {"match"}
      ]_vars

\* C18: when watchFor returns a match, the matched record is the one taken
\* last; it matches the success pattern and none of the records taken by the
\* call before it does; no record taken by the call, the matched one
\* included, matches a fail pattern; and the records taken by the call are
\* those that followed, in FIFO order, the records taken by earlier calls.
C18_MatchIsEarliest ==
    [][(result = "running" /\ result' = "match")
       => LET cc == callConsumed'
          IN  /\ cc # <<>>
              /\ matched' = Last(cc)
              /\ search(cpat, Last(cc).line)
              /\ \A i \in 1..(Len(cc) - 1) : ~search(cpat, cc[i].line)
              /\ \A i \in 1..Len(cc), k \in 1..Len(cfail) : ~search(cfail[k], cc[i].line)
              /\ IsPrefix(consumed'[cq], delivered'[cq])
              /\ \E n \in 0..Len(consumed'[cq]) :
                    consumed'[cq] = SubSeq(consumed'[cq], 1, n) \o cc
      ]_vars

\* a call has returned a match on the second record it took
C18_Witness ==
    /\ result = "match"
    /\ Len(callConsumed) = 2
    /\ matched = callConsumed[2]
    /\ callConsumed[1].line = "err"
    /\ matched.line = "ok"

\* C19: a queue that is closed stays closed; from then on no record joins
\* its private FIFO and none of its records goes to the Console Sink; a
\* queue that is closed and empty stays closed and empty.
C19_ClosedStaysClosed ==
    [][\A q \in QNames :
          /\ closed[q]
             => /\ closed'[q]
                /\ delivered'[q] = delivered[q]
                /\ \E n \in 0..Len(fifo[q]) :
                      fifo'[q] = SubSeq(fifo[q], n + 1, Len(fifo[q]))
                /\ ofSource(sunk', q) = ofSource(sunk, q)
          /\ (closed[q] /\ fifo[q] = <<>>) => (closed'[q] /\ fifo'[q] = <<>>)
      ]_vars

\* the two queues of a subprocess are closed, one with records delivered and
\* one closed and empty
C19_Witness ==
    /\ closed["stdout"] /\ closed["stderr"]
    /\ \E q \in {"stdout", "stderr"} : delivered[q] # <<>>
    /\ \E q \in {"stdout", "stderr"} : fifo[q] = <<>>

\* C21: a Line Reader Queue copies each record to the Console Sink before it
\* enqueues it in its private FIFO: in every state the records that have
\* reached the private FIFO of a source (delivered, which keeps those taken
\* from the FIFO since) are the first records of that source at the sink,
\* the sink is at most one record of that source ahead, and every record
\* now in the private FIFO is at the sink.
C21_SinkFirstAtMostOneAhead ==
    \A q \in QNames :
        LET atSink == ofSource(sunk, q)
        IN  /\ IsPrefix(delivered[q], atSink)
            /\ Len(atSink) - Len(delivered[q]) \in {0, 1}
            /\ \A i \in 1..Len(fifo[q]) :
                   \E j \in 1..Len(atSink) : atSink[j] = fifo[q][i]

\* a worker stands between the two statements of put() with its second
\* record: the sink has both records of the source, the private FIFO the
\* first only
C21_Witness ==
    \E q \in QNames :
        /\ rpc[q] = "q.put"
        /\ Len(delivered[q]) = 1
        /\ ofSource(sunk, q) = Append(delivered[q], rv[q])
        /\ rv[q] # delivered[q][1]

====
